---------------------------- MODULE Spec2Model ----------------------------
(***************************************************************************)
(* Model of the dense Matrix value type (src/lib/src/matrix.cpp), of its   *)
(* Gauss-Jordan reduction rref(), and of the command-line front end        *)
(* (src/app/main.cpp).                                                     *)
(*                                                                         *)
(* Numbers.  A double is modelled as a binary floating-point number        *)
(* <<m, e>> standing for m * 2^e, with m = 0 or m odd.  Every arithmetic   *)
(* operation rounds its exact result to Precision significant bits, to     *)
(* nearest, ties to even, as IEEE-754 does with 53 bits.  The exponent is  *)
(* unbounded: overflow to infinity, subnormals and NaN are not modelled.   *)
(*                                                                         *)
(* size_t.  An unsigned integer modulo 2^SizeBits (64 on the build's       *)
(* target); products, sums and the decrement wrap as in the code.          *)
(***************************************************************************)
EXTENDS Integers, Sequences, FiniteSets, TLC

(***************************************************************************)
(* Bounds of the model.                                                    *)
(***************************************************************************)
Precision == 8
SizeBits == 5
MaxRows == 2
MaxCols == 2

SizeMod == 2 ^ SizeBits

(***************************************************************************)
(* Floating point.                                                         *)
(***************************************************************************)
\* The values of the number model.  An operator that uses an argument more
\* than once takes it through a local function over Double, Int or Nat, which
\* evaluates it once.
Double == Int \X Int

IAbs(n) == IF n < 0 THEN 0 - n ELSE n

ISign(n) == IF n < 0 THEN 0 - 1 ELSE 1

RECURSIVE BitLen(_)
BitLen(n) ==
    LET len[x \in Nat] == IF x = 0 THEN 0 ELSE 1 + BitLen(x \div 2)
    IN  len[n]

RECURSIVE NormMag(_, _)
NormMag(n, e) ==
    LET mag[x \in Nat, y \in Int] ==
            IF x = 0 THEN <<0, 0>>
            ELSE IF x % 2 = 0 THEN NormMag(x \div 2, y + 1)
            ELSE <<x, y>>
    IN  mag[n, e]

\* The float with value m * 2^e, m of at most Precision bits.
Norm(m, e) ==
    LET norm[x \in Int, y \in Int] ==
            LET p == NormMag(IAbs(x), y) IN <<ISign(x) * p[1], p[2]>>
    IN  norm[m, e]

\* Round m * 2^e to Precision significant bits, to nearest, ties to even.
Round(m, e) ==
    LET rounded[x \in Int, y \in Int] ==
            LET n == IAbs(x)
                k == BitLen(n) - Precision
            IN  IF k <= 0 THEN Norm(x, y)
                ELSE LET q    == n \div (2 ^ k)
                         r    == n % (2 ^ k)
                         half == 2 ^ (k - 1)
                         q1   == IF r > half \/ (r = half /\ q % 2 = 1) THEN q + 1 ELSE q
                     IN  Norm(ISign(x) * q1, y + k)
    IN  rounded[m, e]

Zero == <<0, 0>>
One == <<1, 0>>

\* The double of an integer literal.
F(n) == Norm(n, 0)

FNeg(a) == <<0 - a[1], a[2]>>

FAbs(a) == <<IAbs(a[1]), a[2]>>

\* a + b.  Operands further apart than 2*Precision+2 binary places: the
\* one with the lower exponent is less than an eighth of a unit in the last
\* place of the other, and the rounded sum is the other.
FAdd(a, b) ==
    LET sum[x \in Double, y \in Double] ==
            IF x[1] = 0 THEN y
            ELSE IF y[1] = 0 THEN x
            ELSE LET hi == IF x[2] >= y[2] THEN x ELSE y
                     lo == IF x[2] >= y[2] THEN y ELSE x
                     d  == hi[2] - lo[2]
                 IN  IF d >= 2 * Precision + 2 THEN hi
                     ELSE Round(hi[1] * (2 ^ d) + lo[1], lo[2])
    IN  sum[a, b]

FSub(a, b) == FAdd(a, FNeg(b))

FMul(a, b) ==
    LET product[x \in Double, y \in Double] == Round(x[1] * y[1], x[2] + y[2])
    IN  product[a, b]

\* a / b for b # 0: the quotient to 2*Precision+2 extra places and a sticky
\* bit for a nonzero remainder, then rounded.
FDiv(a, b) ==
    LET quotient[x \in Double, y \in Double] ==
            LET s   == 2 * Precision + 2
                n   == IAbs(x[1]) * (2 ^ s)
                q   == n \div IAbs(y[1])
                rem == n % IAbs(y[1])
                qs  == 2 * q + (IF rem # 0 THEN 1 ELSE 0)
            IN  Round(ISign(x[1]) * ISign(y[1]) * qs, x[2] - y[2] - s - 1)
    IN  quotient[a, b]

\* a < b and a > b: the sign of the rounded difference is that of the exact one.
FLess(a, b) == FSub(a, b)[1] < 0

FGreater(a, b) == FLess(b, a)

\* The tolerance of constants.hpp.
EPS == <<1, 0 - 30>>


(***************************************************************************)
(* The Matrix object: rows, cols and data, data row-major; data[k + 1] is  *)
(* the element the code calls data_[k].                                    *)
(***************************************************************************)
MaxCalls == 2

VARIABLES
    A,       \* the Matrix object the operations act on
    B,       \* the right operand of ==, !=, + and -
    last,    \* the latest constructor call, element access or operator call
    pc,      \* "start": no object yet; "idle": between calls; "loop": inside
             \* rref(); "threw": rref() threw; "ub": undefined behaviour
    lead,    \* rref: next candidate pivot column
    row,     \* rref: the loop counter of the outer for
    calls,   \* completed calls of rref() on A since A was last written
    orig,    \* A as the latest call of rref() found it
    first,   \* A as the first completed rref() left it
    piv,     \* what the latest pass of rref's outer loop did
    argv,    \* main: the arguments that follow the program name
    mpc,     \* main: "none": no process; "entry"; "rref": inside A.rref();
             \* "done": the process has ended
    exit_code,  \* main: how the process ended ("" while it has not)
    out      \* main: what was written, in order, to cout and cerr

vars == <<A, B, last, pc, lead, row, calls, orig, first, piv, argv, mpc, exit_code, out>>

process == <<argv, mpc, exit_code, out>>

\* Every record of this module lists its fields in the order in which the
\* field names first occur in the module text.
Matrix(r, c, d) == [cols |-> c, data |-> d, rows |-> r]

\* The objects: any shape with any storage.  The domain of the local functions
\* that take a matrix argument once.
MatrixObject == [cols : Nat, data : Seq(Double), rows : Nat]

\* No object: before a constructor has returned, or after it threw.
NoMatrix == Matrix(0, 0, <<>>)

NoOp == [err |-> "", op |-> "none"]

NoPass == [lead |-> 0, row |-> 0, before |-> NoMatrix, i |-> 0, kind |-> "none",
           scaled |-> Zero]

\* A range check that refuses the last row and the last column as well.
InRangeOffByOne(M, r, c) == ~(r + 1 >= M.rows \/ c + 1 >= M.cols \/ r < 0 \/ c < 0)

\* operator(): the range check that precedes every element access.
InRange(M, r, c) == ~(r >= M.rows \/ c >= M.cols \/ r < 0 \/ c < 0)

\* operator(): the position rows * cols_ + cols of data_, counted from 1.
Pos(M, r, c) == ((r * M.cols + c) % SizeMod) + 1

Get(M, r, c) == M.data[Pos(M, r, c)]

\* A comparison with >= where operator== has >: a difference of exactly EPS
\* would count as unequal.
MatEqAtLeast(x, y) == ~FLess(FAbs(FSub(x, y)), EPS)

\* operator== and operator!=.
MatEqGreater(x, y) == FGreater(FAbs(FSub(x, y)), EPS)

MatEq(M, N) ==
    IF M.rows # N.rows \/ M.cols # N.cols THEN FALSE
    ELSE \A k \in 1..Len(M.data) : ~MatEqGreater(M.data[k], N.data[k])

MatNeq(M, N) == ~MatEq(M, N)

(***************************************************************************)
(* Constructors.  Each yields [err, m]: the message of the exception       *)
(* thrown ("" when none) and the object built.                             *)
(***************************************************************************)
InvalidDimension == "Matrix dimensions must be >0"

NonRectangular == "Matrix must be rectangular"

IndexOutOfRange == "Matrix indices out of range"

MismatchAdd == "Matrix dimensions must match for addition"

MismatchSub == "Matrix dimensions must match for subtraction"

\* std::vector reports a request it cannot serve by throwing (length_error,
\* bad_alloc); the model's store serves at most MaxStore elements.
BadAlloc == "std::bad_alloc"

MaxStore == MaxRows * MaxCols

Ok(M) == [m |-> M, err |-> ""]

Thrown(e) == [m |-> NoMatrix, err |-> e]

\* Matrix(rows, cols): data_(rows * cols, 0.0) is built by the member
\* initialisers, before the body tests the dimensions.
ConstructDims(r, c) ==
    LET n == (r * c) % SizeMod
    IN  IF n > MaxStore THEN Thrown(BadAlloc)
        ELSE IF r = 0 \/ c = 0 THEN Thrown(InvalidDimension)
        ELSE Ok(Matrix(r, c, [k \in 1..n |-> Zero]))

\* Matrix(values), values a sequence of rows.
ConstructNested(values) ==
    IF Len(values) = 0 \/ Len(values[1]) = 0 THEN Thrown(InvalidDimension)
    ELSE LET r == Len(values)
             c == Len(values[1])
         IN  IF \E i \in 1..r : Len(values[i]) # c THEN Thrown(NonRectangular)
             ELSE Ok(Matrix(r, c, [k \in 1..(r * c) |->
                        values[((k - 1) \div c) + 1][((k - 1) % c) + 1]]))

\* Matrix(rows, cols, values), values flat.
ConstructFlat(r, c, values) ==
    IF r <= 0 \/ c <= 0 \/ Len(values) = 0 THEN Thrown(InvalidDimension)
    ELSE IF r # Len(values) \div c THEN Thrown(NonRectangular)
    ELSE Ok(Matrix(r, c, [k \in 1..((r * c) % SizeMod) |-> values[k]]))

(***************************************************************************)
(* operator+, operator- and the two scalar operator*.                      *)
(***************************************************************************)
Plus(M, N) ==
    IF M.rows # N.rows \/ M.cols # N.cols THEN Thrown(MismatchAdd)
    ELSE LET result == ConstructDims(M.rows, M.cols)
         IN  IF result.err # "" THEN result
             ELSE Ok([result.m EXCEPT !.data =
                        [k \in 1..Len(M.data) |-> FAdd(M.data[k], N.data[k])]])

\* A subtraction with its operands exchanged: element i is N[i] - M[i].
MinusSwapped(M, N) ==
    IF M.rows # N.rows \/ M.cols # N.cols THEN Thrown(MismatchSub)
    ELSE Ok(Matrix(M.rows, M.cols,
                   [k \in 1..Len(M.data) |-> FSub(N.data[k], M.data[k])]))

Minus(M, N) ==
    IF M.rows # N.rows \/ M.cols # N.cols THEN Thrown(MismatchSub)
    ELSE LET result == ConstructDims(M.rows, M.cols)
         IN  IF result.err # "" THEN result
             ELSE Ok([result.m EXCEPT !.data =
                        [k \in 1..Len(M.data) |-> FSub(M.data[k], N.data[k])]])

Times(M, f) ==
    LET result == ConstructDims(M.rows, M.cols)
    IN  IF result.err # "" THEN result
        ELSE Ok([result.m EXCEPT !.data = [k \in 1..Len(M.data) |-> FMul(M.data[k], f)]])

TimesLeft(f, M) == Times(M, f)

(***************************************************************************)
(* Row operations.                                                         *)
(***************************************************************************)
RowOf(M, k) == (k - 1) \div M.cols

ColOf(M, k) == (k - 1) % M.cols

RowInRange(M, r) == ~(r >= M.rows \/ r < 0)

swap_rows(M, r1, r2) ==
    LET exchanged[m \in MatrixObject] ==
            [m EXCEPT !.data = [k \in 1..Len(m.data) |->
                IF RowOf(m, k) = r1 THEN m.data[r2 * m.cols + ColOf(m, k) + 1]
                ELSE IF RowOf(m, k) = r2 THEN m.data[r1 * m.cols + ColOf(m, k) + 1]
                ELSE m.data[k]]]
    IN  exchanged[M]

scale_row(M, r, scalar) ==
    LET multiplied[m \in MatrixObject, s \in Double] ==
            [m EXCEPT !.data = [k \in 1..Len(m.data) |->
                IF RowOf(m, k) = r THEN FMul(m.data[k], s) ELSE m.data[k]]]
    IN  multiplied[M, scalar]

add_row_multiple(M, src, dst, scalar) ==
    LET added[m \in MatrixObject, s \in Double] ==
            [m EXCEPT !.data = [k \in 1..Len(m.data) |->
                IF RowOf(m, k) = dst
                THEN FAdd(m.data[k], FMul(s, m.data[src * m.cols + ColOf(m, k) + 1]))
                ELSE m.data[k]]]
    IN  added[M, scalar]

(***************************************************************************)
(* rref(): one action per pass of the outer for loop.                      *)
(***************************************************************************)
\* The test of the pivot search: the entry counts as zero and is passed over.
PivotSkip(x) == FLess(FAbs(x), EPS)

\* while (i < rows_ && |(*this)(i, lead)| < EPS) ++i;
RECURSIVE FindPivot(_, _, _)
FindPivot(M, i, ld) ==
    IF i < M.rows /\ PivotSkip(Get(M, i, ld)) THEN FindPivot(M, i + 1, ld) ELSE i

\* A reduction that leaves the pivot row as it is, without normalising it.
ScalePivotSkipped(M, r, ld) == M

\* if (|pivot| > EPS) scale_row(row, 1.0 / pivot);
ScalePivot(M, r, ld) ==
    LET normalised[m \in MatrixObject, pivot \in Double] ==
            IF FGreater(FAbs(pivot), EPS) THEN scale_row(m, r, FDiv(One, pivot)) ELSE m
    IN  normalised[M, Get(M, r, ld)]

\* for (j = 0; j < rows_; ++j) if (j != row) { factor = (*this)(j, lead); ... }
RECURSIVE Eliminate(_, _, _, _)
Eliminate(M, r, ld, j) ==
    LET rest[m \in MatrixObject] ==
            IF ~(j < m.rows) THEN m
            ELSE IF j # r /\ FGreater(FAbs(Get(m, j, ld)), EPS)
                 THEN Eliminate(add_row_multiple(m, r, j, FNeg(Get(m, j, ld))), r, ld, j + 1)
                 ELSE Eliminate(m, r, ld, j + 1)
    IN  rest[M]

\* The decrement alone, as if the ++row of the for statement did not follow.
RowAfterDecrement(r) == (r - 1) % SizeMod

\* row-- followed by the ++row of the for statement, on a size_t.
RowAfterContinue(r) == (((r - 1) % SizeMod) + 1) % SizeMod

\* An object whose data_ is shorter than rows_ * cols_ passes the range check
\* of operator() with a position outside data_: undefined behaviour, at the
\* first element rref() reads.
StorageOK(M) == Len(M.data) = M.rows * M.cols

RrefCall ==
    /\ pc = "idle"
    /\ calls < MaxCalls
    /\ pc' = IF StorageOK(A) THEN "loop" ELSE "ub"
    /\ lead' = 0
    /\ row' = 0
    /\ piv' = NoPass
    /\ orig' = A
    /\ UNCHANGED <<A, B, last, calls, first>>
    /\ UNCHANGED process

RrefFinish ==
    /\ UNCHANGED process
    /\ pc' = "idle"
    /\ calls' = calls + 1
    /\ first' = IF calls = 0 THEN A ELSE first
    /\ UNCHANGED <<A, B, last, lead, row, orig, piv>>

\* The for condition row < rows_ fails: the loop and rref() end.
RrefLoopExit ==
    /\ pc = "loop"
    /\ ~(row < A.rows)
    /\ RrefFinish

\* if (lead >= cols_) return;
RrefLeadReturn ==
    /\ pc = "loop"
    /\ row < A.rows
    /\ lead >= A.cols
    /\ RrefFinish

\* The pivot search ends with i == rows_: lead++; row--; continue;
RrefNoPivot ==
    /\ pc = "loop"
    /\ row < A.rows
    /\ ~(lead >= A.cols)
    /\ UNCHANGED process
    /\ IF ~InRange(A, row, lead)
       THEN pc' = "threw" /\ UNCHANGED <<A, B, last, lead, row, calls, orig, first, piv>>
       ELSE /\ FindPivot(A, row, lead) = A.rows
            /\ lead' = (lead + 1) % SizeMod
            /\ row' = RowAfterContinue(row)
            /\ piv' = [lead |-> lead, row |-> row, before |-> A, i |-> A.rows,
                       kind |-> "skip", scaled |-> Zero]
            /\ UNCHANGED <<A, B, last, pc, calls, orig, first>>

\* A pivot row i is found: swap, normalise, eliminate, ++lead, ++row.
RrefPivot ==
    /\ pc = "loop"
    /\ row < A.rows
    /\ ~(lead >= A.cols)
    /\ InRange(A, row, lead)
    /\ UNCHANGED process
    /\ LET i == FindPivot(A, row, lead)
       IN  /\ i # A.rows
           /\ IF ~(RowInRange(A, i) /\ RowInRange(A, row))
              THEN pc' = "threw" /\ UNCHANGED <<A, B, last, lead, row, calls, orig, first, piv>>
              ELSE LET swapped == swap_rows(A, i, row)
                       scaled  == ScalePivot(swapped, row, lead)
                   IN  /\ A' = Eliminate(scaled, row, lead, 0)
                       /\ lead' = (lead + 1) % SizeMod
                       /\ row' = (row + 1) % SizeMod
                       /\ piv' = [lead |-> lead, row |-> row, before |-> A, i |-> i,
                                  kind |-> "pivot", scaled |-> Get(scaled, row, lead)]
                       /\ UNCHANGED <<B, last, pc, calls, orig, first>>

NextRref == RrefCall \/ RrefLoopExit \/ RrefLeadReturn \/ RrefNoPivot \/ RrefPivot

(***************************************************************************)
(* The caller: constructor calls, element accesses, operator calls.        *)
(***************************************************************************)
CtorVals == {Zero, One}

\* Row and column numbers the caller passes: small ones, and ones at half
\* the range of size_t.
RowInputs == 0..MaxRows \cup {SizeMod \div 2, SizeMod \div 2 + 1}

ColInputs == 0..MaxCols \cup {SizeMod \div 2}

SeqsUpTo(V, n) == UNION {[1..k -> V] : k \in 0..n}

NestedInputs == SeqsUpTo(SeqsUpTo(CtorVals, MaxCols), MaxRows)

FlatInputs == SeqsUpTo(CtorVals, MaxStore + 1)

Constructed(op, args, res) ==
    /\ pc = "start"
    /\ last' = [err |-> res.err, op |-> op, before |-> A, args |-> args, after |-> res.m]
    /\ IF res.err = ""
       THEN A' = res.m /\ pc' = "idle"
       ELSE UNCHANGED <<A, pc>>
    /\ UNCHANGED <<B, lead, row, calls, orig, first, piv>>
    /\ UNCHANGED process

NewDims == \E r \in RowInputs, c \in ColInputs :
               Constructed("Matrix(rows, cols)", <<r, c>>, ConstructDims(r, c))

NewNested == \E values \in NestedInputs :
                 Constructed("Matrix(values)", <<values>>, ConstructNested(values))

NewFlat == \E r \in 0..MaxRows, c \in 0..MaxCols, values \in FlatInputs :
               Constructed("Matrix(rows, cols, values)", <<r, c, values>>,
                           ConstructFlat(r, c, values))

\* m(r, c) read and m(r, c) = v.  The check throws; past the check the
\* element at Pos is read or written, which is undefined when data_ has no
\* such element.
Access(op, r, c, v) ==
    /\ pc = "idle"
    /\ IF ~InRange(A, r, c)
       THEN /\ last' = [err |-> IndexOutOfRange, op |-> op, before |-> A,
                        args |-> <<r, c, v>>, after |-> A, pos |-> 0, val |-> Zero]
            /\ UNCHANGED <<A, pc, calls, orig, first, piv>>
       ELSE IF Pos(A, r, c) > Len(A.data)
       THEN /\ last' = [err |-> "ub", op |-> op, before |-> A, args |-> <<r, c, v>>,
                        after |-> A, pos |-> Pos(A, r, c), val |-> Zero]
            /\ pc' = "ub"
            /\ UNCHANGED <<A, calls, orig, first, piv>>
       ELSE IF op = "write"
       THEN /\ A' = [A EXCEPT !.data[Pos(A, r, c)] = v]
            /\ last' = [err |-> "", op |-> op, before |-> A, args |-> <<r, c, v>>,
                        after |-> A', pos |-> Pos(A, r, c), val |-> v]
            /\ calls' = 0
            /\ orig' = NoMatrix
            /\ first' = NoMatrix
            /\ piv' = NoPass
            /\ UNCHANGED pc
       ELSE /\ last' = [err |-> "", op |-> op, before |-> A, args |-> <<r, c, v>>,
                        after |-> A, pos |-> Pos(A, r, c), val |-> Get(A, r, c)]
            /\ UNCHANGED <<A, pc, calls, orig, first, piv>>
    /\ UNCHANGED <<B, lead, row>>
    /\ UNCHANGED process

ReadAt == \E r \in RowInputs, c \in ColInputs : Access("read", r, c, Zero)

WriteAt == \E r \in RowInputs, c \in ColInputs, v \in CtorVals : Access("write", r, c, v)

\* A call of a const operator on A with right operand X: last.result is the
\* Matrix it returned, last.after and last.afterB its operands afterwards.
Called(op, X, res, val) ==
    /\ pc = "idle"
    /\ last' = [err |-> res.err, op |-> op, before |-> A, result |-> res.m,
                after |-> A, val |-> val, operand |-> X, afterB |-> X]
    /\ UNCHANGED <<A, B, pc, lead, row, calls, orig, first, piv>>
    /\ UNCHANGED process

OperandsOf(M) == {M, Matrix(1, 1, <<One>>), Matrix(1, 2, <<One, One>>)}

OpPlus == \E X \in OperandsOf(A) : Called("+", X, Plus(A, X), FALSE)

OpMinus == \E X \in OperandsOf(A) : Called("-", X, Minus(A, X), FALSE)

OpTimes == \E f \in {Zero, F(2)} :
               \/ Called("m * f", Matrix(1, 1, <<f>>), Times(A, f), FALSE)
               \/ Called("f * m", Matrix(1, 1, <<f>>), TimesLeft(f, A), FALSE)

\* The caller's expressions on two objects: A == B, A != B, A + B, A - B,
\* and (A + B) - B on the sum the latest A + B returned.
NoResult == [m |-> NoMatrix, err |-> ""]

EqB == Called("==", B, NoResult, MatEq(A, B))

NeqB == Called("!=", B, NoResult, MatNeq(A, B))

PlusB == Called("+", B, Plus(A, B), FALSE)

MinusB == Called("-", B, Minus(A, B), FALSE)

MinusBack ==
    /\ last.op = "+"
    /\ last.err = ""
    /\ Called("(A + B) - B", B, Minus(last.result, B), FALSE)

(***************************************************************************)
(* The structural predicate of the tests.                                  *)
(***************************************************************************)
NonZero(x) == FGreater(FAbs(x), EPS)

\* The first column c of row r with |m(r, c)| > EPS, or -1.
RECURSIVE FirstNonZero(_, _, _)
FirstNonZero(M, r, c) ==
    IF ~(c < M.cols) THEN 0 - 1
    ELSE IF NonZero(Get(M, r, c)) THEN c
    ELSE FirstNonZero(M, r, c + 1)

RECURSIVE IsRrefFrom(_, _, _, _)
IsRrefFrom(M, r, last_pivot_col, found_zero_row) ==
    IF ~(r < M.rows) THEN TRUE
    ELSE LET pivot_col == FirstNonZero(M, r, 0)
         IN  IF pivot_col = 0 - 1 THEN IsRrefFrom(M, r + 1, last_pivot_col, TRUE)
             ELSE IF found_zero_row THEN FALSE
             ELSE IF FGreater(FAbs(FSub(Get(M, r, pivot_col), One)), EPS) THEN FALSE
             ELSE IF pivot_col <= last_pivot_col THEN FALSE
             ELSE IF \E rr \in 0..(M.rows - 1) :
                         rr # r /\ NonZero(Get(M, rr, pivot_col)) THEN FALSE
             ELSE IsRrefFrom(M, r + 1, pivot_col, found_zero_row)

isRREF(M) == IsRrefFrom(M, 0, 0 - 1, FALSE)

(***************************************************************************)
(* Inputs of the reduction.                                                *)
(***************************************************************************)
Matrices(V, maxr, maxc) ==
    UNION {{Matrix(r, c, d) : d \in [1..(r * c) -> V]} : r \in 1..maxr, c \in 1..maxc}

\* Entries of ordinary size.
SmallVals == {Zero, One, F(2)}

\* Entries around the tolerance: EPS/2, EPS, 2*EPS, beside 0, 1 and 2.
EpsVals == {Zero, One, F(2), <<1, EPS[2] - 1>>, EPS, <<1, EPS[2] + 1>>}

InitCommon ==
    /\ pc = "idle"
    /\ lead = 0
    /\ row = 0
    /\ calls = 0
    /\ piv = NoPass
    /\ orig = A
    /\ first = A
    /\ B = NoMatrix
    /\ last = NoOp
    /\ argv = <<>>
    /\ mpc = "none"
    /\ exit_code = ""
    /\ out = <<>>

\* The fixtures of the tests of rref().
FromRows(rs) ==
    Matrix(Len(rs), Len(rs[1]),
           [k \in 1..(Len(rs) * Len(rs[1])) |->
               F(rs[((k - 1) \div Len(rs[1])) + 1][((k - 1) % Len(rs[1])) + 1])])

FullAugmented3x4 == FromRows(<<<<2, 1, 0 - 1, 8>>, <<0 - 3, 0 - 1, 2, 0 - 11>>, <<0 - 2, 1, 2, 0 - 3>>>>)

InconsistentSystem == FromRows(<<<<1, 2, 3, 4>>, <<2, 4, 6, 9>>>>)

FreeVariables == FromRows(<<<<2, 1, 3, 0, 10>>, <<1, 1, 1, 0, 7>>, <<3, 2, 4, 0, 17>>>>)

FreeVariablesU == FromRows(<<<<1, 0, 2, 0, 3>>, <<0, 1, 0 - 1, 0, 4>>, <<0, 0, 0, 0, 0>>>>)

ZeroAtBottom == FromRows(<<<<0, 0, 0, 0>>, <<1, 0, 0, 4>>, <<0, 1, 7, 8>>>>)

ZeroAtBottomU == FromRows(<<<<1, 0, 0, 4>>, <<0, 1, 7, 8>>, <<0, 0, 0, 0>>>>)

Fixtures == {FullAugmented3x4, InconsistentSystem, FreeVariables, ZeroAtBottom}

InitRref == A \in (Matrices(SmallVals, MaxRows, MaxCols) \cup Fixtures) /\ InitCommon

InitEps == A \in Matrices(EpsVals, MaxRows, MaxCols) /\ InitCommon

SpecRref == InitRref /\ [][NextRref]_vars

SpecEps == InitEps /\ [][NextRref]_vars

\* One pass of the outer loop of rref(), or its return.
RrefStep == RrefLoopExit \/ RrefLeadReturn \/ RrefNoPivot \/ RrefPivot

\* Every pattern of columns with and without a pivot, on entries 0 and 1.
InitRuns == A \in Matrices(CtorVals, MaxRows, MaxCols) /\ InitCommon

\* rref() is sequential code: once called it keeps executing until it returns.
\* The caller is under no obligation to call it.
SpecRrefRuns == InitRuns /\ [][NextRref]_vars /\ WF_vars(RrefStep)

Init ==
    /\ A = NoMatrix
    /\ pc = "start"
    /\ lead = 0
    /\ row = 0
    /\ calls = 0
    /\ piv = NoPass
    /\ orig = NoMatrix
    /\ first = NoMatrix
    /\ B = NoMatrix
    /\ last = NoOp
    /\ argv = <<>>
    /\ mpc = "none"
    /\ exit_code = ""
    /\ out = <<>>

Next ==
    \/ NewDims \/ NewNested \/ NewFlat
    \/ ReadAt \/ WriteAt
    \/ OpPlus \/ OpMinus \/ OpTimes
    \/ NextRref

Spec == Init /\ [][Next]_vars

\* Two objects of at most MaxCells elements each, with entries 0, EPS, 1 and
\* Big, which is large enough for 1 + Big to round to Big.
MaxCells == 2

Big == <<1, Precision + 2>>

ArithVals == {Zero, EPS, One, Big}

ArithMatrices ==
    UNION {{Matrix(r, c, d) : d \in [1..(r * c) -> ArithVals]} :
              <<r, c>> \in {rc \in (1..MaxRows) \X (1..MaxCols) : rc[1] * rc[2] <= MaxCells}}

InitArith ==
    /\ A \in ArithMatrices
    /\ B \in ArithMatrices
    /\ pc = "idle"
    /\ lead = 0
    /\ row = 0
    /\ calls = 0
    /\ piv = NoPass
    /\ orig = NoMatrix
    /\ first = NoMatrix
    /\ last = NoOp
    /\ argv = <<>>
    /\ mpc = "none"
    /\ exit_code = ""
    /\ out = <<>>

NextArith == EqB \/ NeqB \/ PlusB \/ MinusB \/ MinusBack

SpecArith == InitArith /\ [][NextArith]_vars

\* One object, constructed and then read and written.
NextObject == NewDims \/ NewNested \/ NewFlat \/ ReadAt \/ WriteAt

SpecObject == Init /\ [][NextObject]_vars

(***************************************************************************)
(* The command-line front end, main().                                     *)
(***************************************************************************)
\* operator<<: the rows of m, each the elements data_[r * cols_ + c].
Shown(M) ==
    [r \in 1..M.rows |-> [c \in 1..M.cols |-> M.data[(r - 1) * M.cols + c]]]

Cerr(text, args) == [args |-> args, text |-> text, stream |-> "cerr"]

Cout(text, args) == [args |-> args, text |-> text, stream |-> "cout"]

Usage == "Usage: <rows> <cols> <matrix values...>"

ExpectedValues == "Expected values for a matrix, but got"

\* How a process ends that an exception leaves uncaught: std::terminate.
Aborted == "SIGABRT"

\* stod(argv[argc]) converts a null pointer: undefined; the library throws
\* std::logic_error, which nothing catches, or the read faults.
NullArgument == {Aborted, "SIGSEGV"}

Ended(code, written) ==
    /\ exit_code' = code
    /\ out' = out \o written
    /\ mpc' = "done"
    /\ UNCHANGED argv

\* main() from its entry to the call A.rref(), or to its end when it ends
\* before.
MainEnter ==
    /\ mpc = "entry"
    /\ LET argc == Len(argv) + 1
       IN  IF ~(argc > 3)
           THEN /\ Ended("1", <<Cerr(Usage, <<>>)>>)
                /\ UNCHANGED <<A, B, last, pc, lead, row, calls, orig, first, piv>>
           ELSE LET rows == argv[1]
                    cols == argv[2]
                    made == ConstructDims(rows, cols)
                    expected_args == (3 + rows * cols) % SizeMod
                IN  IF made.err # ""
                    THEN /\ Ended(Aborted, <<Cerr(made.err, <<>>)>>)
                         /\ UNCHANGED <<A, B, last, pc, lead, row, calls, orig, first, piv>>
                    ELSE IF argc # expected_args
                    THEN /\ Ended("1", <<Cerr(ExpectedValues,
                                  <<(expected_args - 1) % SizeMod, rows, cols, argc - 3>>)>>)
                         /\ UNCHANGED <<A, B, last, pc, lead, row, calls, orig, first, piv>>
                    ELSE IF rows * cols > argc - 3
                    THEN /\ \E code \in NullArgument : Ended(code, <<>>)
                         /\ pc' = "ub"
                         /\ UNCHANGED <<A, B, last, lead, row, calls, orig, first, piv>>
                    ELSE /\ A' = [made.m EXCEPT !.data =
                                     [k \in 1..(rows * cols) |-> argv[2 + k]]]
                         /\ out' = out \o <<Cout("Input matrix:", Shown(A'))>>
                         /\ mpc' = "rref"
                         /\ pc' = "loop"
                         /\ lead' = 0
                         /\ row' = 0
                         /\ piv' = NoPass
                         /\ orig' = A'
                         /\ UNCHANGED <<B, last, calls, first, argv, exit_code>>

\* main() after A.rref() has returned, or thrown.
MainReturn ==
    /\ mpc = "rref"
    /\ pc \in {"idle", "threw"}
    /\ IF pc = "threw"
       THEN Ended(Aborted, <<Cerr(IndexOutOfRange, <<>>)>>)
       ELSE Ended("0", <<Cout("RREF of the matrix:", Shown(A))>>)
    /\ UNCHANGED <<A, B, last, pc, lead, row, calls, orig, first, piv>>

\* The command lines: up to two numbers, or two numbers and values.
CommandLines ==
    {<<>>} \cup {<<r>> : r \in RowInputs} \cup (RowInputs \X ColInputs)
    \cup UNION {{<<r, c>> \o values : values \in SeqsUpTo(CtorVals, MaxStore + 1)} :
                   r \in RowInputs, c \in ColInputs}

InitCli ==
    /\ argv \in CommandLines
    /\ mpc = "entry"
    /\ exit_code = ""
    /\ out = <<>>
    /\ A = NoMatrix
    /\ B = NoMatrix
    /\ pc = "start"
    /\ lead = 0
    /\ row = 0
    /\ calls = 0
    /\ piv = NoPass
    /\ orig = NoMatrix
    /\ first = NoMatrix
    /\ last = NoOp

NextCli ==
    \/ MainEnter
    \/ RrefLoopExit \/ RrefLeadReturn \/ RrefNoPivot \/ RrefPivot
    \/ MainReturn

SpecCli == InitCli /\ [][NextCli]_vars

(***************************************************************************)
(* C1.  After rref() the matrix satisfies the structural RREF predicate of *)
(* the tests, entries at or below EPS included.                            *)
(***************************************************************************)
C1_RrefResultIsRref == (pc = "idle" /\ calls >= 1) => isRREF(A)

(***************************************************************************)
(* C2.  rref() is idempotent: a second call leaves a matrix equal          *)
(* (operator==) to the result of the first.                                *)
(***************************************************************************)
C2_RrefIdempotent == (pc = "idle" /\ calls >= 2) => MatEq(A, first)

(***************************************************************************)
(* C3.  The fixtures of the tests reduce to their stated values:           *)
(* FullAugmented3x4 ends with column 3 = [2, 3, -1], InconsistentSystem    *)
(* with row 1 = [0, 0, 0, 1], FreeVariables and ZeroAtBottom with the      *)
(* matrices the tests compare them to; values compared within EPS.         *)
(***************************************************************************)
Near(x, y) == ~FGreater(FAbs(FSub(x, y)), EPS)

Reduced == pc = "idle" /\ calls = 1

C3_FixturesReduce ==
    Reduced =>
        /\ orig = FullAugmented3x4 =>
              /\ Near(Get(A, 0, 3), F(2))
              /\ Near(Get(A, 1, 3), F(3))
              /\ Near(Get(A, 2, 3), F(0 - 1))
        /\ orig = InconsistentSystem =>
              /\ Near(Get(A, 1, 0), Zero)
              /\ Near(Get(A, 1, 1), Zero)
              /\ Near(Get(A, 1, 2), Zero)
              /\ Near(Get(A, 1, 3), One)
        /\ orig = FreeVariables => MatEq(A, FreeVariablesU)
        /\ orig = ZeroAtBottom => MatEq(A, ZeroAtBottomU)

C3_Witness == Reduced /\ orig = FreeVariables /\ A = FreeVariablesU

(***************************************************************************)
(* C4.  Shape invariant: an object a constructor returned has rows >= 1,   *)
(* cols >= 1 and exactly rows*cols stored elements; writes through         *)
(* operator() and rref() keep that and leave rows and cols unchanged; the  *)
(* results of +, - and scalar * have it too.                               *)
(***************************************************************************)
WellShaped(M) == M.rows >= 1 /\ M.cols >= 1 /\ Len(M.data) = M.rows * M.cols

SameShape(M, N) == M.rows = N.rows /\ M.cols = N.cols

C4_ShapeInvariant ==
    /\ pc # "start" => WellShaped(A)
    /\ (last.op \in {"read", "write"}) => SameShape(last.after, last.before)
    /\ (pc \in {"loop", "threw"} \/ calls >= 1) => SameShape(A, orig)
    /\ (last.op \in {"+", "-", "m * f", "f * m"} /\ last.err = "") =>
          WellShaped(last.result) /\ SameShape(last.result, last.before)

(***************************************************************************)
(* C5.  m(r, c), read or written, fails with the out-of-range error        *)
(* exactly when r >= rows or c >= cols; a failed access leaves the matrix  *)
(* unchanged; a successful access refers to storage position r*cols + c.   *)
(***************************************************************************)
C5_AccessChecked ==
    (last.op \in {"read", "write"}) =>
        LET r == last.args[1]
            c == last.args[2]
            M == last.before
        IN  /\ (last.err = IndexOutOfRange) <=> (r >= M.rows \/ c >= M.cols)
            /\ last.err = IndexOutOfRange => last.after = M
            /\ last.err = "" =>
                  /\ last.pos = r * M.cols + c + 1
                  /\ last.op = "read" =>
                        last.after = M /\ last.val = M.data[r * M.cols + c + 1]
                  /\ last.op = "write" =>
                        last.after = [M EXCEPT !.data[r * M.cols + c + 1] = last.args[3]]

(***************************************************************************)
(* C6.  A == B is true iff A and B have the same rows and the same cols    *)
(* and every pair of corresponding elements differs by at most EPS, the    *)
(* difference being the one the subtraction of doubles yields (a           *)
(* difference of exactly EPS counts as equal); it is false on any shape    *)
(* mismatch; A != B is the negation of A == B.                             *)
(***************************************************************************)
AtMost(x, y) == FSub(y, x)[1] >= 0

Differ(M, N, k) == FAbs(FSub(M.data[k], N.data[k]))

C6_EqualWithinEps ==
    LET M == last.before
        N == last.operand
        equal == /\ SameShape(M, N)
                 /\ \A k \in 1..Len(M.data) : AtMost(Differ(M, N, k), EPS)
    IN  /\ last.op = "==" => (last.val <=> equal)
        /\ last.op = "!=" => (last.val <=> ~equal)
        /\ (last.op \in {"==", "!="}) => (MatNeq(M, N) <=> ~MatEq(M, N))

C6_Witness ==
    /\ last.op = "=="
    /\ last.val
    /\ \E k \in 1..Len(last.before.data) : Differ(last.before, last.operand, k) = EPS

(***************************************************************************)
(* C7.  A + B and A - B fail with the dimension-mismatch error exactly     *)
(* when A and B differ in rows or in cols; otherwise they return a matrix  *)
(* of the same shape whose element i is A[i] + B[i] (resp. A[i] - B[i]);   *)
(* A and B are left unmodified.  As stated, (A + B) - B equals A for all   *)
(* equal-shaped A, B: C7_RoundTripAlways.  As amended, (A + B) - B equals  *)
(* A for all equal-shaped A, B whose element sums A[i] + B[i] are all      *)
(* computed without rounding: C7_SumAndDifference.                         *)
(***************************************************************************)
\* The sum a + b is a double: the addition returns it unrounded.
ExactSum(a, b) ==
    \/ a[1] = 0
    \/ b[1] = 0
    \/ LET hi == IF a[2] >= b[2] THEN a ELSE b
           lo == IF a[2] >= b[2] THEN b ELSE a
           d == hi[2] - lo[2]
       IN  /\ d <= Precision
           /\ BitLen(IAbs(Norm(hi[1] * (2 ^ d) + lo[1], lo[2])[1])) <= Precision

ExactSums(M, N) == \A k \in 1..Len(M.data) : ExactSum(M.data[k], N.data[k])

C7_RoundTripAlways ==
    (last.op = "(A + B) - B" /\ last.err = "") => MatEq(last.result, last.before)

C7_SumAndDifference ==
    LET M == last.before
        N == last.operand
    IN  /\ (last.op \in {"+", "-"}) =>
              /\ (last.err # "") <=> ~SameShape(M, N)
              /\ last.err # "" =>
                    last.err = (IF last.op = "+" THEN MismatchAdd ELSE MismatchSub)
              /\ last.err = "" =>
                    /\ SameShape(last.result, M)
                    /\ Len(last.result.data) = Len(M.data)
                    /\ \A k \in 1..Len(M.data) :
                          last.result.data[k] =
                              (IF last.op = "+" THEN FAdd(M.data[k], N.data[k])
                               ELSE FSub(M.data[k], N.data[k]))
              /\ last.after = M /\ A = M
              /\ last.afterB = N /\ B = N
        /\ (last.op = "(A + B) - B" /\ last.err = "" /\ ExactSums(M, N)) =>
              last.result = M /\ MatEq(last.result, M)

C7_Witness ==
    /\ last.op = "(A + B) - B"
    /\ last.err = ""
    /\ ExactSums(last.before, last.operand)
    /\ \E k \in 1..Len(last.before.data) :
          last.before.data[k] # Zero /\ last.operand.data[k] # Zero
    /\ last.result = last.before

(***************************************************************************)
(* C8.  Matrix(rows, cols, values) fails with InvalidDimension when rows   *)
(* = 0, cols = 0 or values is empty, otherwise with NonRectangular         *)
(* whenever the length of values is not exactly rows*cols; when it         *)
(* succeeds the matrix holds the first rows*cols values in row-major order *)
(* and reads no position at or past the length of values.                  *)
(***************************************************************************)
C8_FlatRejectsWrongLength ==
    (last.op = "Matrix(rows, cols, values)") =>
        LET r == last.args[1]
            c == last.args[2]
            values == last.args[3]
        IN  /\ (r = 0 \/ c = 0 \/ Len(values) = 0) => last.err = InvalidDimension
            /\ (r > 0 /\ c > 0 /\ Len(values) > 0 /\ Len(values) # r * c) =>
                  last.err = NonRectangular
            /\ last.err = "" =>
                  /\ r * c <= Len(values)
                  /\ last.after = Matrix(r, c, SubSeq(values, 1, r * c))

(***************************************************************************)
(* C9.  The front end ends with exit code 1 and a message on the error     *)
(* stream when fewer than three arguments follow the program name (a usage *)
(* message) and when the number of value arguments differs from rows*cols  *)
(* (a descriptive message), declared dimensions of 0 included; in every    *)
(* other case it prints the matrix before and after rref() and ends with   *)
(* exit code 0.  No invocation ends through an uncaught error.             *)
(***************************************************************************)
C9_CliExits ==
    mpc = "done" =>
        LET n == Len(argv)
        IN  /\ exit_code \in {"0", "1"}
            /\ n < 3 => exit_code = "1" /\ out = <<Cerr(Usage, <<>>)>>
            /\ (n >= 3 /\ n - 2 # argv[1] * argv[2]) =>
                  /\ exit_code = "1"
                  /\ Len(out) = 1
                  /\ out[1].stream = "cerr"
                  /\ out[1].text = ExpectedValues
            /\ (n >= 3 /\ n - 2 = argv[1] * argv[2]) =>
                  /\ exit_code = "0"
                  /\ Len(out) = 2
                  /\ out[1] = Cout("Input matrix:", Shown(orig))
                  /\ out[2] = Cout("RREF of the matrix:", Shown(A))

(***************************************************************************)
(* C10.  Each pivot search takes the first row i in row..rows-1 whose      *)
(* entry at column lead has absolute value strictly greater than EPS; a    *)
(* column whose entries from row downward are all <= EPS in absolute value *)
(* yields no pivot; a chosen pivot is scaled to exactly 1 before the       *)
(* elimination.                                                            *)
(***************************************************************************)
RECURSIVE FirstAboveEps(_, _, _)
FirstAboveEps(M, i, ld) ==
    IF i < M.rows /\ ~NonZero(Get(M, i, ld)) THEN FirstAboveEps(M, i + 1, ld) ELSE i

C10_PivotIsFirstAboveEps ==
    /\ piv.kind = "pivot" =>
          /\ piv.i = FirstAboveEps(piv.before, piv.row, piv.lead)
          /\ piv.scaled = One
    /\ piv.kind = "skip" =>
          FirstAboveEps(piv.before, piv.row, piv.lead) = piv.before.rows

(***************************************************************************)
(* C11.  rref() terminates on every valid matrix.  Every pass of the outer *)
(* loop that does not return increases lead by exactly 1 and leaves row    *)
(* as it is (a column without pivot: the decrement is undone by the loop   *)
(* increment) or increases it by 1; lead never exceeds cols and row never  *)
(* exceeds rows, so a call makes at most cols column-advancements and at   *)
(* most rows row-advancements; and every call returns.                     *)
(***************************************************************************)
C11_RrefTerminates ==
    /\ [][(pc = "loop" /\ pc' = "loop") =>
             /\ lead' = lead + 1
             /\ row' \in {row, row + 1}]_vars
    /\ [](pc = "loop" => (lead <= A.cols /\ row <= A.rows))
    /\ (pc = "loop") ~> (pc = "idle")

\* A call has returned by lead reaching cols, its last pass having found no
\* pivot in the last column.
C11_Witness ==
    /\ pc = "idle"
    /\ calls >= 1
    /\ piv.kind = "skip"
    /\ lead = A.cols
    /\ row < A.rows

(***************************************************************************)
(* C12.  rref() never raises an error on a valid matrix.  Between passes   *)
(* row is at most rows and lead at most cols: the decrement of row on a    *)
(* column without pivot, which wraps at row = 0, never shows, since the    *)
(* loop increment brings the counter back before it is used.  In every     *)
(* pass the rows read by the pivot search, the two rows swapped, the row   *)
(* scaled and the rows of the elimination are in 0..rows-1, and the column *)
(* lead is in 0..cols-1.                                                   *)
(***************************************************************************)
\* The rows i of the elements (i, lead) the pivot search reads: the while
\* condition reads (i, lead) only after i < rows_.
SearchRows(M, r, ld) == {i \in r..FindPivot(M, r, ld) : i < M.rows}

\* The rows j of the elements (j, lead) the elimination reads, and of the
\* calls add_row_multiple(row, j, ...).
EliminateRows(M, r) == {j \in 0..(M.rows - 1) : j # r}

\* Every row index a pass uses: the search, swap_rows(i, row), the pivot
\* (row, lead), scale_row(row, ...) and the elimination.
PassRows(M, r, ld) ==
    LET i == FindPivot(M, r, ld)
    IN  SearchRows(M, r, ld) \cup
        (IF i = M.rows THEN {} ELSE {i, r} \cup EliminateRows(M, r))

C12_RrefIndicesInRange ==
    /\ pc # "threw"
    /\ pc = "loop" => (row \in 0..A.rows /\ lead \in 0..A.cols)
    /\ piv.kind # "none" =>
          /\ piv.lead \in 0..(piv.before.cols - 1)
          /\ piv.row \in 0..(piv.before.rows - 1)
          /\ \A x \in PassRows(piv.before, piv.row, piv.lead) :
                 x \in 0..(piv.before.rows - 1)

\* A column without pivot at row = 0: the counter was decremented at 0 and
\* the next pass starts at row 0 again.
C12_Witness ==
    /\ pc = "loop"
    /\ piv.kind = "skip"
    /\ piv.row = 0
    /\ row = 0
    /\ lead < A.cols

=============================================================================
